---- MODULE Spec2Model ----
(***************************************************************************)
(* Model of awslabs/eks_mcp_server/eks_cluster_handler.py:                 *)
(* EksClusterHandler.__init__ and EksClusterHandler.list_clusters.         *)
(*                                                                         *)
(* Every invocation of list_clusters is a coroutine frame with its own     *)
(* locals; the handler object holds self.mcp only.  The collaborators      *)
(* (host dispatcher, logging helper, client factory, EKS client) are the   *)
(* environment: each of their calls either returns or raises.              *)
(***************************************************************************)
EXTENDS Integers, Sequences, FiniteSets, TLC

\* ---------------------------------------------------------------- bounds
NumInv == 2          \* invocations that may be in flight together
MaxClusters == 3     \* longest cluster list the upstream API returns

Invs == 1..NumInv

\* ------------------------------------------------------- python values
\* Optional[T]: None is the empty tuple, a supplied value v is <<v>>, so that
\* a supplied falsy value (0, '', []) differs from None.
None == <<>>
Some(v) == <<v>>
IsNone(o) == o = <<>>
Val(o) == o[1]

\* An empty dict / no keyword arguments.
EmptyDict == [k \in {} |-> None]

\* A python object found under response['clusters']: its type and, for the
\* sized ones, its items.  "list" is a list of name strings; "dict" stands for
\* any sized object that is not one.
PyObj(t, items) == [type |-> t, items |-> items]
PyNone == PyObj("NoneType", <<>>)

\* ------------------------------------------------------------- inputs
MaxResultsVals == {0, 10, 101}
NextTokenVals == {"", "current_token"}
IncludeVals == {<<>>, <<"all">>, <<"external">>}

Opt(S) == {None} \cup {Some(v) : v \in S}

ArgSpace ==
  [max_results : Opt(MaxResultsVals),
   next_token  : Opt(NextTokenVals),
   include     : Opt(IncludeVals)]

\* The arguments used when several invocations are interleaved.
ConcArgSpace ==
  {a \in ArgSpace :
     \/ a = [max_results |-> None, next_token |-> None, include |-> None]
     \/ a = [max_results |-> Some(10), next_token |-> Some("current_token"),
             include |-> Some(<<"all">>)]}

ClusterNames == {"cluster1", "cluster2"}
UpstreamTokens == {"next_page_token"}

SeqsUpTo(S, n) == UNION {[1..k -> S] : k \in 0..n}

\* What response['clusters'] can hold: a list of names, or a malformed value.
ClusterValues ==
  {PyObj("list", s) : s \in SeqsUpTo(ClusterNames, MaxClusters)}
    \cup {PyNone, PyObj("dict", <<"cluster1">>)}

\* The dicts eks_client.list_clusters can return.
Responses ==
  {("clusters" :> c) : c \in ClusterValues}
    \cup {("clusters" :> c) @@ ("nextToken" :> t) :
             c \in ClusterValues, t \in UpstreamTokens}
    \cup {EmptyDict} \cup {("nextToken" :> t) : t \in UpstreamTokens}

ConcResponses ==
  {("clusters" :> PyObj("list", <<"cluster1">>)) @@ ("nextToken" :> "next_page_token"),
   ("clusters" :> PyObj("dict", <<"cluster1">>)),
   EmptyDict}

\* str(e) of the exceptions the collaborators raise.
LogErrors == {"log failure"}
FactoryErrors == {"Unable to locate credentials"}
UpstreamErrors == {"AWS API Error", "ThrottlingException"}

\* ------------------------------------------------------- pure helpers
Digits == <<"0", "1", "2", "3", "4", "5", "6", "7", "8", "9">>

\* str(n) of a non-negative int, as the f-strings format it.
RECURSIVE IntToStr(_)
IntToStr(n) ==
  IF n < 10 THEN Digits[n + 1]
  ELSE IntToStr(n \div 10) \o Digits[(n % 10) + 1]

\* Mutant of BuildParams: tests truthiness (`if max_results:`) instead of
\* `is not None`, so a supplied 0, '' or [] is dropped.
BuildParamsTruthy(mr, nt, inc) ==
  LET p0 == EmptyDict
      p1 == IF ~IsNone(mr) /\ Val(mr) # 0 THEN ("maxResults" :> Val(mr)) @@ p0 ELSE p0
      p2 == IF ~IsNone(nt) /\ Val(nt) # "" THEN ("nextToken" :> Val(nt)) @@ p1 ELSE p1
      p3 == IF ~IsNone(inc) /\ Val(inc) # <<>> THEN ("include" :> Val(inc)) @@ p2 ELSE p2
  IN p3

\* Mutant of BuildParams: validates on the client side, clamping max_results
\* into [1,100] and keeping only the recognised include value 'all'.
BuildParamsClamped(mr, nt, inc) ==
  LET clamp(n) == IF n < 1 THEN 1 ELSE IF n > 100 THEN 100 ELSE n
      p0 == EmptyDict
      p1 == IF ~IsNone(mr) THEN ("maxResults" :> clamp(Val(mr))) @@ p0 ELSE p0
      p2 == IF ~IsNone(nt) THEN ("nextToken" :> Val(nt)) @@ p1 ELSE p1
      p3 == IF ~IsNone(inc)
              THEN ("include" :> SelectSeq(Val(inc), LAMBDA x : x = "all")) @@ p2
              ELSE p2
  IN p3

\* params = {}; if x is not None: params[...] = x   (lines 79-85)
BuildParams(mr, nt, inc) ==
  LET p0 == EmptyDict
      p1 == IF ~IsNone(mr) THEN ("maxResults" :> Val(mr)) @@ p0 ELSE p0
      p2 == IF ~IsNone(nt) THEN ("nextToken" :> Val(nt)) @@ p1 ELSE p1
      p3 == IF ~IsNone(inc) THEN ("include" :> Val(inc)) @@ p2 ELSE p2
  IN p3

\* response['clusters'] raises KeyError when the key is missing.
HasClusters(resp) == "clusters" \in DOMAIN resp
KeyErrorStr == "'clusters'"

\* Mutant of GetNextToken: reads the tool-level key name next_token, which
\* the upstream result never holds.
GetNextTokenSnake(resp) ==
  IF "next_token" \in DOMAIN resp THEN Some(resp["next_token"]) ELSE None

\* response.get('nextToken')
GetNextToken(resp) ==
  IF "nextToken" \in DOMAIN resp THEN Some(resp["nextToken"]) ELSE None

\* len(cluster_names) raises TypeError on an object without a length.
HasLen(obj) == obj.type \in {"list", "dict"}
PyLen(obj) == Len(obj.items)
TypeErrorStr == "object of type 'NoneType' has no len()"

FoundMsg(names) == "Found " \o IntToStr(PyLen(names)) \o " EKS clusters"
SuccessText(names) ==
  "Successfully listed " \o IntToStr(PyLen(names)) \o " EKS clusters"
\* Mutant of ErrorMsg: the bare description, without the prefix.
ErrorMsgBare(e) == e

ErrorMsg(e) == "Failed to list EKS clusters: " \o e

TextContent(text) == [type |-> "text", text |-> text]

\* ListClustersResponse declares clusters: List[str]; constructing it with
\* anything else raises a validation error.
ValidClusters(obj) == obj.type = "list"
ValidationErrorStr == "1 validation error for ListClustersResponse"

\* Mutant of SuccessResponse: count=len(response) instead of
\* len(cluster_names), the number of keys of the upstream dict.
SuccessResponseCountKeys(names, tok) ==
  [isError    |-> FALSE,
   content    |-> <<TextContent(SuccessText(names))>>,
   clusters   |-> names.items,
   count      |-> IF IsNone(tok) THEN 1 ELSE 2,
   next_token |-> tok]

\* ListClustersResponse(isError=False, ...)   (lines 95-106)
SuccessResponse(names, tok) ==
  [isError    |-> FALSE,
   content    |-> <<TextContent(SuccessText(names))>>,
   clusters   |-> names.items,
   count      |-> PyLen(names),
   next_token |-> tok]

\* ListClustersResponse(isError=True, ...)   (lines 114-120)
ErrorResponse(msg) ==
  [isError    |-> TRUE,
   content    |-> <<TextContent(msg)>>,
   clusters   |-> <<>>,
   count      |-> 0,
   next_token |-> None]

LogEntry(level, msg) == [level |-> level, message |-> msg]

\* mcp.tool(name='list_clusters')(self.list_clusters)
Registration == [name |-> "list_clusters", fn |-> "self.list_clusters"]

\* ------------------------------------------------------------- state
VARIABLES
  self_mcp,            \* the handler's only attribute; None before __init__
  registry,            \* host dispatcher: the tools registered, in order
  pc,                  \* per invocation: the line the coroutine is at
  args,                \* per invocation: max_results, next_token, include
  params,              \* per invocation: the local dict params
  response,            \* per invocation: the local response
  cluster_names,       \* per invocation: the local cluster_names
  response_next_token, \* per invocation: the local response_next_token
  exc,                 \* per invocation: str(e) of the exception caught
  failed_at,           \* per invocation: the step that raised, or "none"
  ret,                 \* per invocation: the envelope returned, as Optional
  logs,                \* log sink: per invocation context, the entries emitted
  client_calls,        \* client factory: calls made, per invocation
  upstream_calls,      \* EKS client: keyword bags received, per invocation
  env                  \* per invocation: the collaborators' outcomes, in order

handler_vars == <<self_mcp, registry>>
frame_vars == <<pc, args, params, response, cluster_names, response_next_token,
                exc, failed_at, ret>>
world_vars == <<logs, client_calls, upstream_calls, env>>
vars == <<self_mcp, registry, pc, args, params, response, cluster_names,
          response_next_token, exc, failed_at, ret, logs, client_calls,
          upstream_calls, env>>

NoArgs == [max_results |-> None, next_token |-> None, include |-> None]

Init ==
  /\ self_mcp = None
  /\ registry = <<>>
  /\ pc = [i \in Invs |-> "idle"]
  /\ args = [i \in Invs |-> NoArgs]
  /\ params = [i \in Invs |-> EmptyDict]
  /\ response = [i \in Invs |-> EmptyDict]
  /\ cluster_names = [i \in Invs |-> PyNone]
  /\ response_next_token = [i \in Invs |-> None]
  /\ exc = [i \in Invs |-> ""]
  /\ failed_at = [i \in Invs |-> "none"]
  /\ ret = [i \in Invs |-> None]
  /\ logs = [i \in Invs |-> <<>>]
  /\ client_calls = [i \in Invs |-> 0]
  /\ upstream_calls = [i \in Invs |-> <<>>]
  /\ env = [i \in Invs |-> <<>>]

\* ------------------------------------------------------------ actions
\* Mutant of Construct: the constructor also creates the EKS client, to
\* cache it on the handler.
ConstructEager ==
  /\ self_mcp = None
  /\ self_mcp' = Some("mcp")
  /\ registry' = Append(registry, Registration)
  /\ client_calls' = [client_calls EXCEPT ![1] = @ + 1]
  /\ UNCHANGED <<frame_vars, logs, upstream_calls, env>>

\* EksClusterHandler.__init__
Construct ==
  /\ self_mcp = None
  /\ self_mcp' = Some("mcp")
  /\ registry' = Append(registry, Registration)
  /\ UNCHANGED <<frame_vars, world_vars>>

\* The host dispatches a call of the registered tool with arguments from A.
Invoke(i, A) ==
  /\ self_mcp # None
  /\ pc[i] = "idle"
  /\ \E a \in A : args' = [args EXCEPT ![i] = a]
  /\ pc' = [pc EXCEPT ![i] = "log_start"]
  /\ UNCHANGED <<handler_vars, params, response, cluster_names,
                 response_next_token, exc, failed_at, ret, world_vars>>

\* An exception raised in the try block reaches `except Exception as e`.
Raise(i, step, msg) ==
  /\ pc' = [pc EXCEPT ![i] = "except"]
  /\ exc' = [exc EXCEPT ![i] = msg]
  /\ failed_at' = [failed_at EXCEPT ![i] = step]

Record(i, outcome) == env' = [env EXCEPT ![i] = Append(@, outcome)]

\* line 73: log_with_request_id(ctx, LogLevel.INFO, 'Listing EKS clusters')
LogStart(i) ==
  /\ pc[i] = "log_start"
  /\ \/ /\ logs' = [logs EXCEPT ![i] = Append(@, LogEntry("INFO", "Listing EKS clusters"))]
        /\ Record(i, <<"ok">>)
        /\ pc' = [pc EXCEPT ![i] = "client"]
        /\ UNCHANGED <<exc, failed_at>>
     \/ \E m \in LogErrors :
          /\ Raise(i, "log_start", m)
          /\ Record(i, <<"raise", m>>)
          /\ UNCHANGED logs
  /\ UNCHANGED <<handler_vars, args, params, response, cluster_names,
                 response_next_token, ret, client_calls, upstream_calls>>

\* line 76: eks_client = AwsHelper.create_boto3_client('eks')
CreateClient(i) ==
  /\ pc[i] = "client"
  /\ client_calls' = [client_calls EXCEPT ![i] = @ + 1]
  /\ \/ /\ Record(i, <<"ok">>)
        /\ pc' = [pc EXCEPT ![i] = "build"]
        /\ UNCHANGED <<exc, failed_at>>
     \/ \E m \in FactoryErrors :
          /\ Raise(i, "client", m)
          /\ Record(i, <<"raise", m>>)
  /\ UNCHANGED <<handler_vars, args, params, response, cluster_names,
                 response_next_token, ret, logs, upstream_calls>>

\* Mutant of BuildParamsStep: the bag is kept on the handler (self.params)
\* instead of in a local, so every frame sees the bag built last.
BuildParamsStepShared(i) ==
  /\ pc[i] = "build"
  /\ params' = [j \in Invs |->
                  BuildParams(args[i].max_results, args[i].next_token, args[i].include)]
  /\ pc' = [pc EXCEPT ![i] = "call"]
  /\ UNCHANGED <<handler_vars, args, response, cluster_names,
                 response_next_token, exc, failed_at, ret, world_vars>>

\* lines 79-85: the parameter bag
BuildParamsStep(i) ==
  /\ pc[i] = "build"
  /\ params' = [params EXCEPT ![i] =
                  BuildParams(args[i].max_results, args[i].next_token, args[i].include)]
  /\ pc' = [pc EXCEPT ![i] = "call"]
  /\ UNCHANGED <<handler_vars, args, response, cluster_names,
                 response_next_token, exc, failed_at, ret, world_vars>>

\* line 87: response = eks_client.list_clusters(**params), results from R
CallUpstream(i, R) ==
  /\ pc[i] = "call"
  /\ upstream_calls' = [upstream_calls EXCEPT ![i] = Append(@, params[i])]
  /\ \/ \E r \in R :
          /\ response' = [response EXCEPT ![i] = r]
          /\ Record(i, <<"return", r>>)
          /\ pc' = [pc EXCEPT ![i] = "read"]
          /\ UNCHANGED <<exc, failed_at>>
     \/ \E m \in UpstreamErrors :
          /\ Raise(i, "upstream", m)
          /\ Record(i, <<"raise", m>>)
          /\ UNCHANGED response
  /\ UNCHANGED <<handler_vars, args, params, cluster_names,
                 response_next_token, ret, logs, client_calls>>

\* lines 88-89: cluster_names = response['clusters']; response.get('nextToken')
ReadResponse(i) ==
  /\ pc[i] = "read"
  /\ IF HasClusters(response[i])
       THEN /\ cluster_names' = [cluster_names EXCEPT ![i] = response[i]["clusters"]]
            /\ response_next_token' =
                 [response_next_token EXCEPT ![i] = GetNextToken(response[i])]
            /\ pc' = [pc EXCEPT ![i] = "log_found"]
            /\ UNCHANGED <<exc, failed_at>>
       ELSE /\ Raise(i, "read", KeyErrorStr)
            /\ UNCHANGED <<cluster_names, response_next_token>>
  /\ UNCHANGED <<handler_vars, args, params, response, ret, world_vars>>

\* line 92: log_with_request_id(ctx, LogLevel.INFO, f'Found {len(...)} ...')
LogFound(i) ==
  /\ pc[i] = "log_found"
  /\ IF ~HasLen(cluster_names[i])
       THEN /\ Raise(i, "read", TypeErrorStr)
            /\ UNCHANGED <<logs, env>>
       ELSE \/ /\ logs' = [logs EXCEPT ![i] =
                            Append(@, LogEntry("INFO", FoundMsg(cluster_names[i])))]
               /\ Record(i, <<"ok">>)
               /\ pc' = [pc EXCEPT ![i] = "return"]
               /\ UNCHANGED <<exc, failed_at>>
            \/ \E m \in LogErrors :
                 /\ Raise(i, "log_found", m)
                 /\ Record(i, <<"raise", m>>)
                 /\ UNCHANGED logs
  /\ UNCHANGED <<handler_vars, args, params, response, cluster_names,
                 response_next_token, ret, client_calls, upstream_calls>>

\* lines 95-106: return ListClustersResponse(isError=False, ...)
ReturnSuccess(i) ==
  /\ pc[i] = "return"
  /\ IF ValidClusters(cluster_names[i])
       THEN /\ ret' = [ret EXCEPT ![i] =
                         Some(SuccessResponse(cluster_names[i], response_next_token[i]))]
            /\ pc' = [pc EXCEPT ![i] = "returned"]
            /\ UNCHANGED <<exc, failed_at>>
       ELSE /\ Raise(i, "envelope", ValidationErrorStr)
            /\ UNCHANGED ret
  /\ UNCHANGED <<handler_vars, args, params, response, cluster_names,
                 response_next_token, world_vars>>

\* Mutant of LogError: after logging the failure the handler tries once more
\* from the client factory instead of returning the error envelope.
LogErrorRetry(i) ==
  /\ pc[i] = "except"
  /\ logs' = [logs EXCEPT ![i] = Append(@, LogEntry("ERROR", ErrorMsg(exc[i])))]
  /\ Record(i, <<"ok">>)
  /\ pc' = [pc EXCEPT ![i] = IF client_calls[i] < 2 THEN "client" ELSE "return_error"]
  /\ UNCHANGED <<handler_vars, args, params, response, cluster_names,
                 response_next_token, exc, failed_at, ret, client_calls,
                 upstream_calls>>

\* lines 108-111: error_msg = f'Failed ...: {str(e)}'; log it at ERROR level.
\* An exception raised here is outside the try block and leaves the coroutine.
LogError(i) ==
  /\ pc[i] = "except"
  /\ \/ /\ logs' = [logs EXCEPT ![i] = Append(@, LogEntry("ERROR", ErrorMsg(exc[i])))]
        /\ Record(i, <<"ok">>)
        /\ pc' = [pc EXCEPT ![i] = "return_error"]
        /\ UNCHANGED <<exc, failed_at>>
     \/ \E m \in LogErrors :
          /\ pc' = [pc EXCEPT ![i] = "raised"]
          /\ Record(i, <<"raise", m>>)
          /\ UNCHANGED <<logs, exc, failed_at>>
  /\ UNCHANGED <<handler_vars, args, params, response, cluster_names,
                 response_next_token, ret, client_calls, upstream_calls>>

\* lines 114-120: return ListClustersResponse(isError=True, ...)
ReturnError(i) ==
  /\ pc[i] = "return_error"
  /\ ret' = [ret EXCEPT ![i] = Some(ErrorResponse(ErrorMsg(exc[i])))]
  /\ pc' = [pc EXCEPT ![i] = "returned"]
  /\ UNCHANGED <<handler_vars, args, params, response, cluster_names,
                 response_next_token, exc, failed_at, world_vars>>

\* ----------------------------------------------------- specifications
\* One invocation, over the whole input space.
Next ==
  \/ Construct
  \/ Invoke(1, ArgSpace)
  \/ LogStart(1)
  \/ CreateClient(1)
  \/ BuildParamsStep(1)
  \/ CallUpstream(1, Responses)
  \/ ReadResponse(1)
  \/ LogFound(1)
  \/ ReturnSuccess(1)
  \/ LogError(1)
  \/ ReturnError(1)

Spec == Init /\ [][Next]_vars

\* NumInv invocations interleaved between any two steps.
NextConc ==
  \/ Construct
  \/ \E i \in Invs :
       \/ Invoke(i, ConcArgSpace)
       \/ LogStart(i)
       \/ CreateClient(i)
       \/ BuildParamsStep(i)
       \/ CallUpstream(i, ConcResponses)
       \/ ReadResponse(i)
       \/ LogFound(i)
       \/ ReturnSuccess(i)
       \/ LogError(i)
       \/ ReturnError(i)

SpecConc == Init /\ [][NextConc]_vars

\* The whole of list_clusters run without interruption on arguments a, the
\* collaborators answering with the outcomes h in the order they are called:
\* the keyword bags sent upstream, the log entries emitted, and the envelope
\* returned (None when the exception leaves the coroutine).
RunAlone(a, h) ==
  LET bag == BuildParams(a.max_results, a.next_token, a.include)
      start == LogEntry("INFO", "Listing EKS clusters")
      Handler(msg, lg, calls, k) ==
        IF h[k][1] = "ok"
          THEN [calls |-> calls,
                logs  |-> Append(lg, LogEntry("ERROR", ErrorMsg(msg))),
                ret   |-> Some(ErrorResponse(ErrorMsg(msg)))]
          ELSE [calls |-> calls, logs |-> lg, ret |-> None]
  IN IF h[1][1] = "raise" THEN Handler(h[1][2], <<>>, <<>>, 2)
     ELSE IF h[2][1] = "raise" THEN Handler(h[2][2], <<start>>, <<>>, 3)
     ELSE IF h[3][1] = "raise" THEN Handler(h[3][2], <<start>>, <<bag>>, 4)
     ELSE LET r == h[3][2] IN
       IF ~HasClusters(r) THEN Handler(KeyErrorStr, <<start>>, <<bag>>, 4)
       ELSE LET names == r["clusters"]
                tok == GetNextToken(r)
                found == LogEntry("INFO", FoundMsg(names))
            IN IF ~HasLen(names) THEN Handler(TypeErrorStr, <<start>>, <<bag>>, 4)
               ELSE IF h[4][1] = "raise"
                 THEN Handler(h[4][2], <<start>>, <<bag>>, 5)
               ELSE IF ~ValidClusters(names)
                 THEN Handler(ValidationErrorStr, <<start, found>>, <<bag>>, 5)
               ELSE [calls |-> <<bag>>,
                     logs  |-> <<start, found>>,
                     ret   |-> Some(SuccessResponse(names, tok))]

\* ------------------------------------------------------------ properties
Returned(i) == pc[i] = "returned"
Propagated(i) == pc[i] = "raised"
Succeeded(i) == Returned(i) /\ ~Val(ret[i]).isError
Failed(i) == Returned(i) /\ Val(ret[i]).isError
Called(i) == upstream_calls[i] # <<>>
UpstreamReturned(i) == \E k \in 1..Len(env[i]) : env[i][k][1] = "return"
LogRaised(i) == failed_at[i] \in {"log_start", "log_found"} \/ Propagated(i)

\* C1: the keyword bag passed to the upstream list_clusters call holds exactly
\* the supplied fields, renamed maxResults / nextToken / include, with their
\* values unchanged, and no key for an absent field; a supplied falsy value
\* (0, '', []) is forwarded like any other.
C1_ParameterBag ==
  \A i \in Invs : Called(i) =>
    LET bag == upstream_calls[i][1] IN
      /\ DOMAIN bag \subseteq {"maxResults", "nextToken", "include"}
      /\ ("maxResults" \in DOMAIN bag) <=> (args[i].max_results # None)
      /\ ("nextToken" \in DOMAIN bag) <=> (args[i].next_token # None)
      /\ ("include" \in DOMAIN bag) <=> (args[i].include # None)
      /\ args[i].max_results # None => bag["maxResults"] = args[i].max_results[1]
      /\ args[i].next_token # None => bag["nextToken"] = args[i].next_token[1]
      /\ args[i].include # None => bag["include"] = args[i].include[1]

\* An upstream call made with max_results=0 and include=[] supplied and
\* next_token absent.
C1_Witness ==
  \E i \in Invs :
    /\ Called(i)
    /\ args[i].max_results = <<0>>
    /\ args[i].next_token = None
    /\ args[i].include = << <<>> >>

\* C2: no invocation of list_clusters lets an exception reach the host
\* dispatcher; every invocation ends by returning an envelope.
C2_NeverPropagates ==
  \A i \in Invs : ~Propagated(i)

\* C3: an envelope returned on the failure path has isError = true, no
\* clusters, count 0, no next_token and one text entry 'Failed to list EKS
\* clusters: ' followed by the failure's description, whichever step failed;
\* the same string is the message of the one ERROR log entry.
C3_FailureEnvelope ==
  \A i \in Invs : Failed(i) =>
    LET text == "Failed to list EKS clusters: " \o exc[i]
        errors == {k \in 1..Len(logs[i]) : logs[i][k].level = "ERROR"}
    IN /\ Val(ret[i]) = [isError    |-> TRUE,
                         content    |-> <<[type |-> "text", text |-> text]>>,
                         clusters   |-> <<>>,
                         count      |-> 0,
                         next_token |-> <<>>]
       /\ failed_at[i] \in {"log_start", "client", "upstream", "read",
                            "log_found", "envelope"}
       /\ failed_at[i] = "client" => exc[i] \in FactoryErrors
       /\ failed_at[i] = "upstream" => exc[i] \in UpstreamErrors
       /\ Cardinality(errors) = 1
       /\ \A k \in errors : logs[i][k].message = text

\* A failure after the upstream result was read: the upstream continuation
\* token is in the frame and the error envelope still carries none.
C3_Witness ==
  \E i \in Invs :
    /\ Failed(i)
    /\ failed_at[i] = "envelope"
    /\ response_next_token[i] # None
    /\ args[i].next_token # None

WellFormed(resp) ==
  /\ "clusters" \in DOMAIN resp
  /\ resp["clusters"].type = "list"

\* What C4 promises of the envelope of invocation i.
C4_Envelope(i) ==
  LET names == response[i]["clusters"].items IN
    Val(ret[i]) =
      [isError    |-> FALSE,
       content    |-> <<[type |-> "text",
                         text |-> "Successfully listed " \o IntToStr(Len(names))
                                    \o " EKS clusters"]>>,
       clusters   |-> names,
       count      |-> Len(names),
       next_token |-> IF "nextToken" \in DOMAIN response[i]
                        THEN <<response[i]["nextToken"]>> ELSE <<>>]

C5_CountIsLength ==
  \A i \in Invs : ret[i] # None =>
    Val(ret[i]).count = Len(Val(ret[i]).clusters)

\* A success envelope with two or more clusters.
C5_Witness ==
  \E i \in Invs : Succeeded(i) /\ Len(Val(ret[i]).clusters) >= 2

\* C6 (as claimed, for the invocations whose logging calls all returned; a
\* logging call that raises emits nothing): an invocation emits exactly two
\* log entries, never more at any moment: one INFO at start and, at the end,
\* one INFO on the success path or one ERROR on the failure path.
C6_ExactlyTwoLogs ==
  \A i \in Invs : ~LogRaised(i) =>
    /\ Len(logs[i]) <= 2
    /\ Returned(i) =>
         /\ Len(logs[i]) = 2
         /\ logs[i][1] = [level |-> "INFO", message |-> "Listing EKS clusters"]
         /\ logs[i][2].level = IF Val(ret[i]).isError THEN "ERROR" ELSE "INFO"

NothingInvoked ==
  /\ \A i \in Invs : pc[i] = "idle"
  /\ logs = [i \in Invs |-> <<>>]
  /\ client_calls = [i \in Invs |-> 0]
  /\ upstream_calls = [i \in Invs |-> <<>>]
  /\ ret = [i \in Invs |-> <<>>]

\* C7: constructing the handler registers exactly one tool with the host,
\* named 'list_clusters' and bound to the handler's list_clusters, and does
\* nothing else: no client, no upstream call, no log entry.
C7_Registration ==
  /\ self_mcp = None => (registry = <<>> /\ NothingInvoked)
  /\ self_mcp # None =>
       registry = <<[name |-> "list_clusters", fn |-> "self.list_clusters"]>>
  /\ (\A i \in Invs : pc[i] = "idle") => NothingInvoked

\* The handler is constructed and no tool call has been dispatched yet.
C7_Witness ==
  /\ self_mcp # None
  /\ Len(registry) = 1
  /\ \A i \in Invs : pc[i] = "idle"

\* C8: nothing is validated before the upstream call: once the client is
\* obtained the call is made, with max_results (in [1,100] or not) and
\* include ('all' or not) forwarded as given, and an invocation that fails
\* after that fails on what the upstream call raised or returned.
C8_NoValidation ==
  \A i \in Invs :
    /\ (pc[i] \notin {"idle", "log_start", "client", "build", "call"}
          /\ failed_at[i] \notin {"log_start", "client"})
         => (Called(i) /\ failed_at[i] \in {"none", "upstream", "read",
                                            "log_found", "envelope"})
    /\ Called(i) =>
         /\ args[i].max_results # None =>
              upstream_calls[i][1]["maxResults"] = args[i].max_results[1]
         /\ args[i].include # None =>
              upstream_calls[i][1]["include"] = args[i].include[1]

\* max_results=101 and include=['external'] were forwarded and the upstream
\* call accepted them: the invocation succeeded.
C8_Witness ==
  \E i \in Invs :
    /\ Succeeded(i)
    /\ args[i].max_results = <<101>>
    /\ args[i].include = << <<"external">> >>
    /\ upstream_calls[i][1]["maxResults"] = 101

InFailurePath(i) == pc[i] \in {"except", "return_error", "raised"} \/ Failed(i)
Terminal(i) == Returned(i) \/ Propagated(i)

\* C9 (state part): the client factory and the upstream call are each
\* invoked at most once per invocation, the upstream call never after the
\* factory failed, and an invocation that returned is Succeeded exactly when
\* nothing raised and Failed otherwise.
C9_AtMostOnce ==
  \A i \in Invs :
    /\ client_calls[i] <= 1
    /\ Len(upstream_calls[i]) <= 1
    /\ failed_at[i] \in {"log_start", "client"} => upstream_calls[i] = <<>>
    /\ failed_at[i] = "log_start" => client_calls[i] = 0
    /\ Returned(i) => (Val(ret[i]).isError <=> failed_at[i] # "none")

\* C9 (step part): once on the failure path an invocation calls neither the
\* factory nor the upstream API again and never leaves the failure path, and
\* an invocation that has ended stays as it ended.
C9_NoRetryStep ==
  \A i \in Invs :
    /\ InFailurePath(i) =>
         /\ InFailurePath(i)'
         /\ client_calls'[i] = client_calls[i]
         /\ upstream_calls'[i] = upstream_calls[i]
    /\ Terminal(i) =>
         /\ pc'[i] = pc[i]
         /\ ret'[i] = ret[i]
         /\ logs'[i] = logs[i]

\* C9: each invocation goes from started to exactly one of Succeeded or
\* Failed and stays there; factory and upstream call run at most once, a
\* failure is never followed by a retry, and a failed factory means the
\* upstream call is never made.
C9_OneHop == []C9_AtMostOnce /\ [][C9_NoRetryStep]_vars

\* The factory failed, the invocation returned the error envelope, and the
\* upstream API was never called.
C9_Witness ==
  \E i \in Invs :
    /\ Failed(i)
    /\ failed_at[i] = "client"
    /\ client_calls[i] = 1
    /\ upstream_calls[i] = <<>>

\* C10: with invocations interleaved between any two steps, what each one
\* sends upstream, logs and returns is what it would send, log and return
\* run alone on its own arguments against its own collaborators' outcomes.
C10_Alone ==
  \A i \in Invs :
    /\ Called(i) =>
         upstream_calls[i] =
           <<BuildParams(args[i].max_results, args[i].next_token, args[i].include)>>
    /\ Terminal(i) =>
         LET r == RunAlone(args[i], env[i]) IN
           /\ upstream_calls[i] = r.calls
           /\ logs[i] = r.logs
           /\ ret[i] = r.ret

\* Two invocations with different arguments have both ended, one on the
\* success path and one on the failure path.
C10_Witness ==
  /\ Succeeded(1)
  /\ Failed(2)
  /\ args[1] # args[2]
  /\ args[1].max_results # None
  /\ upstream_calls[2] # <<>>

====
